---------------------------- MODULE Spec2Model ----------------------------
(***************************************************************************)
(* Food Delivery API (src/main.py): the restaurant, menuitem and order     *)
(* collections of the document store and the six endpoints that read and   *)
(* write them.                                                             *)
(*                                                                         *)
(* Strings that are looked at character by character (identifiers) are     *)
(* sequences of one-character strings.  Prices are counted in sixteenths   *)
(* of a dollar: every such price, every product with a small quantity      *)
(* and every sum of them is exactly representable as a binary float, so    *)
(* the float arithmetic of place_order is exact on them; totals after      *)
(* round(total, 2) are counted in cents.                                   *)
(*                                                                         *)
(* Every handler is one action.  The handlers only read documents and      *)
(* insert fresh ones, no document is ever updated or removed, so a handler *)
(* whose store calls interleave with other requests answers as if it had   *)
(* run alone at the moment of its last store call.                         *)
(***************************************************************************)
EXTENDS Integers, Sequences, FiniteSets, TLC

VARIABLES restaurant, menuitem, order, req, resp

vars == <<restaurant, menuitem, order, req, resp>>
store == <<restaurant, menuitem, order>>

---------------------------------------------------------------------------
(* Bounds of the model *)

\* documents each POST endpoint may add to its collection
MaxCreated == 1
\* lines of one order request
MaxLines == 2

---------------------------------------------------------------------------
(* Identifiers *)

\* bson.ObjectId: 12 bytes, written as 24 hex characters
OidHexLen == 24

HexLower == {"0", "1", "2", "3", "4", "5", "6", "7", "8", "9",
             "a", "b", "c", "d", "e", "f"}
HexUpper == {"A", "B", "C", "D", "E", "F"}

Rep(c, n) == [i \in 1..n |-> c]

\* bytes.fromhex followed by hexlify: the digits A-F come back as a-f
LowerHex(c) ==
    CASE c = "A" -> "a" [] c = "B" -> "b" [] c = "C" -> "c"
      [] c = "D" -> "d" [] c = "E" -> "e" [] c = "F" -> "f"
      [] OTHER -> c

\* ObjectId(id_str) succeeds: a string of 24 hex digits
ObjectIdParses(s) ==
    /\ Len(s) = OidHexLen
    /\ \A i \in 1..Len(s) : s[i] \in HexLower \cup HexUpper

\* ObjectId.is_valid(id_str)
\* (variant: the guard of the lookup left out)
is_valid_always(s) == TRUE
is_valid(s) == ObjectIdParses(s)

\* to_object_id: the ObjectId of the string, or HTTP 400
to_object_id(id_str) ==
    IF ObjectIdParses(id_str)
    THEN [ok |-> TRUE, oid |-> [i \in 1..Len(id_str) |-> LowerHex(id_str[i])]]
    ELSE [ok |-> FALSE, status |-> 400]

\* the two kinds of _id a document may carry
OidKey(h) == <<"oid", h>>
StrKey(s) == <<"str", s>>

\* str(d["_id"])
str(key) == key[2]

---------------------------------------------------------------------------
(* The document store *)

\* db[collection].find_one({"_id": key}): the matching documents (at most one)
find_one(coll, key) == {d \in coll : d._id = key}

\* the ObjectId the store generates for the k-th document inserted into a
\* collection; tag tells the collections' identifiers apart
OidDigits == <<"a", "b", "c", "d", "e", "f">>
GeneratedOid(tag, k) == Rep("0", OidHexLen - 2) \o <<tag, OidDigits[k]>>

Generated(coll) == {d \in coll : d._id[1] = "oid"}

\* create_document(collection, data): insert with a fresh ObjectId, return
\* the identifier as a string
NewKey(coll, tag) == OidKey(GeneratedOid(tag, Cardinality(Generated(coll)) + 1))

create_document(coll, tag, data) ==
    LET key == NewKey(coll, tag)
    IN  [coll |-> coll \cup {data @@ [_id |-> key]}, id |-> str(key)]

\* get_documents(collection, filter): the documents matching the filter
get_documents(coll, filter) ==
    {d \in coll : \A f \in DOMAIN filter : f \in DOMAIN d /\ d[f] = filter[f]}

\* the loop `d["_id"] = str(d["_id"])` over the documents read
Stringify(docs) == {[d EXCEPT !._id = str(d._id)] : d \in docs}

---------------------------------------------------------------------------
(* Requests *)

\* identifier strings a client sends
UpperLast(h) == [h EXCEPT ![Len(h)] =
    CASE h[Len(h)] = "a" -> "A" [] h[Len(h)] = "b" -> "B"
      [] h[Len(h)] = "c" -> "C" [] h[Len(h)] = "d" -> "D"
      [] h[Len(h)] = "e" -> "E" [] OTHER -> "F"]

\* a short string: no ObjectId, and no document is keyed by it
MissingId == <<"z", "z">>
\* keys of documents that were put into the store with plain string keys
RestSeedId == <<"r", "1">>
MenuSeedId == <<"m">> \o Rep("0", OidHexLen - 1)
RestSeedHexId == Rep("f", OidHexLen)
OrderSeedId == <<"o", "1">>

RestIdStrings ==
    {RestSeedId, RestSeedHexId, MissingId}
    \cup {GeneratedOid("a", k) : k \in 1..MaxCreated}
    \cup {UpperLast(GeneratedOid("a", 1))}

MenuIdStrings ==
    {MenuSeedId, MissingId}
    \cup {GeneratedOid("b", k) : k \in 1..MaxCreated}

\* prices in sixteenths of a dollar, quantities, customer names
Prices == {-1, 3}
Quantities == {0, 3}
Names == {"ann", "bob"}

SeqsUpTo(S, n) == UNION {[1..k -> S] : k \in 0..n}

\* RestaurantIn, MenuItemIn, OrderItemIn, OrderIn: the fields the endpoints
\* and the claims read; the request validation checks types only
RestaurantIn == [name : {"diner"}]
MenuItemIn == [restaurant_id : RestIdStrings, price : Prices]
OrderItemIn == [menu_item_id : MenuIdStrings, quantity : Quantities]
OrderIn == [customer_name : Names, address : {"home"},
            restaurant_id : {RestSeedId},
            items : SeqsUpTo(OrderItemIn, MaxLines)]

---------------------------------------------------------------------------
(* Endpoints *)

\* the lookup of create_menu_item and place_order:
\*   find_one({"_id": to_object_id(s)}) if ObjectId.is_valid(s)
\*   else find_one({"_id": s})
\* (variant: the raw string is the only key tried)
find_by_id_raw(coll, id_str) ==
    [status |-> 200, found |-> find_one(coll, StrKey(id_str))]
find_by_id(coll, id_str) ==
    IF is_valid(id_str)
    THEN LET o == to_object_id(id_str)
         IN  IF o.ok THEN [status |-> 200, found |-> find_one(coll, OidKey(o.oid))]
                     ELSE [status |-> o.status, found |-> {}]
    ELSE [status |-> 200, found |-> find_one(coll, StrKey(id_str))]

\* mi.get("price", 0)
price_of(mi) == IF "price" \in DOMAIN mi THEN mi.price ELSE 0

\* round(total, 2) of a total in sixteenths of a dollar, in cents: the exact
\* value is total * 6.25 cents, rounded to the nearest cent, a tie to the
\* even cent
\* (variant: the digits after the second decimal are cut off)
round2_floor(total) == (total * 25) \div 4
round2(total) ==
    LET n == total * 25
        q == n \div 4
        r == n % 4
    IN  CASE r \in {0, 1} -> q
          [] r = 3 -> q + 1
          [] OTHER -> IF q % 2 = 0 THEN q ELSE q + 1

\* the loop of place_order over payload.items, from line i on
\* (variant: an unresolved line is passed over)
RECURSIVE order_loop_skip(_, _, _, _)
order_loop_skip(menu, items, i, total) ==
    IF i > Len(items) THEN [status |-> 201, total |-> total]
    ELSE LET look == find_by_id(menu, items[i].menu_item_id)
         IN  IF look.found = {}
             THEN order_loop_skip(menu, items, i + 1, total)
             ELSE LET mi == CHOOSE d \in look.found : TRUE
                  IN  order_loop_skip(menu, items, i + 1,
                                      total + price_of(mi) * items[i].quantity)
RECURSIVE order_loop(_, _, _, _)
order_loop(menu, items, i, total) ==
    IF i > Len(items) THEN [status |-> 201, total |-> total]
    ELSE LET look == find_by_id(menu, items[i].menu_item_id)
         IN  IF look.status # 200
             THEN [status |-> look.status, detail |-> "Invalid ID format"]
             ELSE IF look.found = {}
             THEN [status |-> 404, detail |-> items[i].menu_item_id]
             ELSE LET mi == CHOOSE d \in look.found : TRUE
                  IN  order_loop(menu, items, i + 1,
                                 total + price_of(mi) * items[i].quantity)

\* the document place_order builds
\* (variant: customer name and address change places)
order_doc_swapped(payload, total) ==
    [customer_name |-> payload.address,
     address |-> payload.customer_name,
     restaurant_id |-> payload.restaurant_id,
     items |-> payload.items,
     total |-> round2(total),
     status |-> "placed"]
order_doc(payload, total) ==
    [customer_name |-> payload.customer_name,
     address |-> payload.address,
     restaurant_id |-> payload.restaurant_id,
     items |-> payload.items,
     total |-> round2(total),
     status |-> "placed"]

list_restaurants ==
    /\ req' = [op |-> "list_restaurants"]
    /\ resp' = [status |-> 200,
                docs |-> Stringify(get_documents(restaurant, <<>>))]
    /\ UNCHANGED store

create_restaurant(payload) ==
    /\ Cardinality(Generated(restaurant)) < MaxCreated
    /\ LET r == create_document(restaurant, "a", payload)
       IN  /\ restaurant' = r.coll
           /\ resp' = [status |-> 201, id |-> r.id]
    /\ req' = [op |-> "create_restaurant", payload |-> payload]
    /\ UNCHANGED <<menuitem, order>>

list_menu(restaurant_id) ==
    /\ req' = [op |-> "list_menu", restaurant_id |-> restaurant_id]
    /\ resp' = [status |-> 200,
                docs |-> Stringify(get_documents(menuitem,
                            [restaurant_id |-> restaurant_id]))]
    /\ UNCHANGED store

\* (variant: the restaurant is not looked up)
create_menu_item_nocheck(payload) ==
    /\ req' = [op |-> "create_menu_item", payload |-> payload]
    /\ Cardinality(Generated(menuitem)) < MaxCreated
    /\ LET r == create_document(menuitem, "b", payload)
       IN  /\ menuitem' = r.coll
           /\ resp' = [status |-> 201, id |-> r.id]
    /\ UNCHANGED <<restaurant, order>>

create_menu_item(payload) ==
    /\ req' = [op |-> "create_menu_item", payload |-> payload]
    /\ LET rest == find_by_id(restaurant, payload.restaurant_id)
       IN  IF rest.status # 200
           THEN resp' = [status |-> rest.status, detail |-> "Invalid ID format"]
                /\ UNCHANGED menuitem
           ELSE IF rest.found = {}
           THEN resp' = [status |-> 404, detail |-> "Restaurant not found"]
                /\ UNCHANGED menuitem
           ELSE /\ Cardinality(Generated(menuitem)) < MaxCreated
                /\ LET r == create_document(menuitem, "b", payload)
                   IN  /\ menuitem' = r.coll
                       /\ resp' = [status |-> 201, id |-> r.id]
    /\ UNCHANGED <<restaurant, order>>

\* (variant: the insert replaces the collection's documents)
place_order_replace(payload) ==
    /\ req' = [op |-> "place_order", payload |-> payload]
    /\ LET loop == order_loop(menuitem, payload.items, 1, 0)
       IN  IF loop.status # 201
           THEN resp' = loop /\ UNCHANGED order
           ELSE /\ Cardinality(Generated(order)) < MaxCreated
                /\ LET doc == order_doc(payload, loop.total)
                       r == create_document(order, "c", doc)
                   IN  /\ order' = r.coll \ order
                       /\ resp' = [status |-> 201, id |-> r.id,
                                   total |-> doc.total, st |-> doc.status]
    /\ UNCHANGED <<restaurant, menuitem>>

place_order(payload) ==
    /\ req' = [op |-> "place_order", payload |-> payload]
    /\ LET loop == order_loop(menuitem, payload.items, 1, 0)
       IN  IF loop.status # 201
           THEN resp' = loop /\ UNCHANGED order
           ELSE /\ Cardinality(Generated(order)) < MaxCreated
                /\ LET doc == order_doc(payload, loop.total)
                       r == create_document(order, "c", doc)
                   IN  /\ order' = r.coll
                       /\ resp' = [status |-> 201, id |-> r.id,
                                   total |-> doc.total, st |-> doc.status]
    /\ UNCHANGED <<restaurant, menuitem>>

\* (variant: the loop rewrites the stored documents' identifiers)
list_orders_aliasing ==
    /\ req' = [op |-> "list_orders"]
    /\ resp' = [status |-> 200,
                docs |-> Stringify(get_documents(order, <<>>))]
    /\ order' = {[d EXCEPT !._id = StrKey(str(d._id))] : d \in order}
    /\ UNCHANGED <<restaurant, menuitem>>

list_orders ==
    /\ req' = [op |-> "list_orders"]
    /\ resp' = [status |-> 200,
                docs |-> Stringify(get_documents(order, <<>>))]
    /\ UNCHANGED store

---------------------------------------------------------------------------
(* The store the service starts on: empty, or holding documents that were  *)
(* put there with plain string keys                                        *)

SeedRestaurants ==
    {[_id |-> StrKey(RestSeedId), name |-> "seed"],
     [_id |-> StrKey(RestSeedHexId), name |-> "seed"]}
SeedMenu ==
    {[_id |-> StrKey(MenuSeedId), restaurant_id |-> RestSeedId, price |-> 1]}
SeedOrders ==
    {[_id |-> StrKey(OrderSeedId), customer_name |-> "ann", address |-> "home",
      restaurant_id |-> RestSeedId,
      items |-> <<[menu_item_id |-> MenuSeedId, quantity |-> 2]>>,
      total |-> 12, status |-> "placed"]}

Init ==
    /\ \/ restaurant = {} /\ menuitem = {} /\ order = {}
       \/ restaurant = SeedRestaurants /\ menuitem = SeedMenu /\ order = SeedOrders
    /\ req = [op |-> "none"]
    /\ resp = [status |-> 0]

Next ==
    \/ list_restaurants
    \/ \E payload \in RestaurantIn : create_restaurant(payload)
    \/ \E restaurant_id \in RestIdStrings : list_menu(restaurant_id)
    \/ \E payload \in MenuItemIn : create_menu_item(payload)
    \/ \E payload \in OrderIn : place_order(payload)
    \/ list_orders

Spec == Init /\ [][Next]_vars

---------------------------------------------------------------------------
(* Vocabulary of the properties *)

\* a string that has the form of a store-native identifier
WellFormed(s) ==
    Len(s) = OidHexLen /\ \A i \in 1..Len(s) : s[i] \in HexLower \cup HexUpper

\* the native identifier a well-formed string writes
Native(s) == [i \in 1..Len(s) |-> LowerHex(s[i])]

\* the documents a reference string resolves to: by native identifier when
\* the string is well-formed as one, otherwise by the raw string
Resolved(coll, s) ==
    {d \in coll : d._id = (IF WellFormed(s) THEN <<"oid", Native(s)>>
                                             ELSE <<"str", s>>)}
Resolves(coll, s) == Resolved(coll, s) # {}

\* the documents keyed by the string in either representation
KeyedBy(coll, s) == {d \in coll : d._id[2] = s}

RECURSIVE SumOver(_, _)
SumOver(f, n) == IF n = 0 THEN 0 ELSE f[n] + SumOver(f, n - 1)

\* the exact value of an order's lines at the stored prices, in sixteenths
LinesValue(items) ==
    SumOver([i \in 1..Len(items) |->
                (CHOOSE d \in Resolved(menuitem, items[i].menu_item_id) : TRUE).price
                    * items[i].quantity],
            Len(items))

Abs(x) == IF x < 0 THEN -x ELSE x

IsGet(r) == r.op \in {"list_restaurants", "list_menu", "list_orders"}

---------------------------------------------------------------------------
(* Properties *)

\* C1: the total of a placed order, as persisted and as returned, is the
\* sum over the request's lines of stored price times requested quantity,
\* rounded to the nearest cent.
C1_TotalIsRoundedSum ==
    (req.op = "place_order" /\ resp.status = 201) =>
        LET items == req.payload.items
        IN  /\ \A i \in 1..Len(items) : Resolves(menuitem, items[i].menu_item_id)
            /\ Abs(4 * resp.total - 25 * LinesValue(items)) <= 2
            /\ \E d \in order : /\ d._id = <<"oid", resp.id>>
                                /\ d.total = resp.total

\* C1 happens: a two-line order whose exact value is not a whole number of
\* cents was placed.
C1_Witness ==
    /\ req.op = "place_order" /\ resp.status = 201
    /\ Len(req.payload.items) = 2
    /\ (25 * LinesValue(req.payload.items)) % 4 # 0
    /\ req.payload.items[1].menu_item_id # req.payload.items[2].menu_item_id

\* C2: an order request with a line that resolves to no menu item is
\* answered 404 and writes nothing, wherever the line stands.
C2_UnresolvedLineWritesNothing ==
    [][(/\ req'.op = "place_order"
        /\ \E i \in 1..Len(req'.payload.items) :
              ~Resolves(menuitem, req'.payload.items[i].menu_item_id))
       => (resp'.status = 404 /\ store' = store)]_vars

\* C2 happens: the second line of a request was unresolved after the first
\* had resolved, with a non-zero running total.
C2_Witness ==
    /\ req.op = "place_order" /\ resp.status = 404
    /\ Len(req.payload.items) = 2
    /\ Resolves(menuitem, req.payload.items[1].menu_item_id)
    /\ req.payload.items[1].quantity > 0
    /\ ~Resolves(menuitem, req.payload.items[2].menu_item_id)

\* C3: create_menu_item with a restaurant_id that resolves to no restaurant
\* is answered 404 and leaves the store as it was; with one that resolves
\* it adds exactly one menu item, the request's, and returns its identifier.
C3_MenuItemNeedsRestaurant ==
    [][req'.op = "create_menu_item" =>
        IF Resolves(restaurant, req'.payload.restaurant_id)
        THEN /\ resp'.status = 201
             /\ menuitem \subseteq menuitem'
             /\ Cardinality(menuitem') = Cardinality(menuitem) + 1
             /\ \A d \in menuitem' \ menuitem :
                   /\ d._id = <<"oid", resp'.id>>
                   /\ d.restaurant_id = req'.payload.restaurant_id
                   /\ d.price = req'.payload.price
             /\ restaurant' = restaurant /\ order' = order
        ELSE resp'.status = 404 /\ store' = store]_vars

\* C3 happens: a menu item was created under a restaurant with a generated
\* identifier, given in upper case.
C3_Witness ==
    /\ req.op = "create_menu_item" /\ resp.status = 201
    /\ req.payload.restaurant_id = UpperLast(GeneratedOid("a", 1))

\* C4: a successful place_order adds exactly one order document, built from
\* the request, leaves everything else as it was and returns the
\* identifier, total and status of that document.
C4_PlaceOrderWritesOneOrder ==
    [][(req'.op = "place_order" /\ resp'.status = 201) =>
        /\ restaurant' = restaurant /\ menuitem' = menuitem
        /\ order \subseteq order'
        /\ Cardinality(order') = Cardinality(order) + 1
        /\ \A d \in order' \ order :
              /\ d._id = <<"oid", resp'.id>>
              /\ d.customer_name = req'.payload.customer_name
              /\ d.address = req'.payload.address
              /\ d.restaurant_id = req'.payload.restaurant_id
              /\ d.items = req'.payload.items
              /\ d.total = resp'.total
              /\ d.status = "placed" /\ resp'.st = "placed"]_vars

\* C4 happens: an order was placed while another order was stored.
C4_Witness ==
    /\ req.op = "place_order" /\ resp.status = 201
    /\ Cardinality(order) >= 2
    /\ req.payload.customer_name = "bob"

\* C5 as stated: a malformed reference string is answered 400.
C5_MalformedIs400 ==
    /\ (req.op = "create_menu_item" /\ ~WellFormed(req.payload.restaurant_id))
          => resp.status = 400
    /\ (req.op = "place_order" /\ Len(req.payload.items) > 0
          /\ ~WellFormed(req.payload.items[1].menu_item_id))
          => resp.status = 400

\* C5, amended: no request is answered 400; a malformed reference string is
\* the lookup key as it stands, so the answer is 404 when no document is
\* keyed by that string and the request goes on when one is.
C5_MalformedIsPlainKey ==
    /\ resp.status # 400
    /\ (req.op = "create_menu_item" /\ ~WellFormed(req.payload.restaurant_id))
          => resp.status =
               (IF \E d \in restaurant : d._id = <<"str", req.payload.restaurant_id>>
                THEN 201 ELSE 404)
    /\ (req.op = "place_order" /\ Len(req.payload.items) > 0
          /\ ~WellFormed(req.payload.items[1].menu_item_id))
          => IF \E d \in menuitem :
                    d._id = <<"str", req.payload.items[1].menu_item_id>>
             THEN resp.status \in {201, 404}
             ELSE resp.status = 404
                  /\ resp.detail = req.payload.items[1].menu_item_id

\* C5 happens: an order whose first line carries a malformed identifier
\* that keys no document was answered.
C5_Witness ==
    /\ req.op = "place_order" /\ Len(req.payload.items) > 0
    /\ req.payload.items[1].menu_item_id = MissingId
    /\ resp.status = 404

\* C6 as stated: a request that names a stored restaurant by the string
\* that keys it, whatever the string's shape, finds the restaurant.
C6_EveryKeyIsFound ==
    (req.op = "create_menu_item"
        /\ KeyedBy(restaurant, req.payload.restaurant_id) # {})
    => resp.status = 201

\* C7 as stated: every order that place_order persisted has at least one
\* line, quantities of at least 1 and a total of at least 0.
C7_PersistedOrdersAreValid ==
    \A d \in Generated(order) :
        /\ Len(d.items) >= 1
        /\ \A i \in 1..Len(d.items) : d.items[i].quantity >= 1
        /\ d.total >= 0

\* C8: a GET writes nothing, and what it returns is the documents of its
\* collection (for list_menu those of the given restaurant_id) with their
\* identifiers as strings: a function of the store and the argument alone.
C8_GetsReadTheStore ==
    [][IsGet(req') =>
        /\ store' = store
        /\ resp'.status = 200
        /\ resp'.docs =
             LET coll == CASE req'.op = "list_restaurants" -> restaurant
                           [] req'.op = "list_orders" -> order
                           [] OTHER ->
                              {d \in menuitem :
                                  d.restaurant_id = req'.restaurant_id}
             IN  {[f \in DOMAIN d |-> IF f = "_id" THEN d._id[2] ELSE d[f]] :
                     d \in coll}]_vars

\* C8 happens: the orders were listed while a generated and a string-keyed
\* order were stored.
C8_Witness ==
    /\ req.op = "list_orders"
    /\ Cardinality(resp.docs) = 2
    /\ Generated(order) # {}

\* C9: every stored order has status "placed", and a stored order is never
\* changed or removed.
C9_OrdersArePermanent ==
    [][/\ order \subseteq order'
       /\ \A d \in order' : d.status = "placed"
       /\ \A d, e \in order' : d._id = e._id => d = e]_vars

\* C9 happens: requests were served after an order was placed.
C9_Witness ==
    /\ Generated(order) # {}
    /\ Cardinality(order) >= 2
    /\ req.op = "create_menu_item" /\ resp.status = 201

\* C10: the restaurant_id of every stored menu item resolves to a stored
\* restaurant.
C10_MenuItemsHaveRestaurants ==
    \A m \in menuitem : Resolves(restaurant, m.restaurant_id)

\* C10 happens: a menu item created under a generated restaurant is stored
\* and further requests were served.
C10_Witness ==
    /\ \E m \in Generated(menuitem) : WellFormed(m.restaurant_id)
    /\ req.op = "place_order" /\ resp.status = 201

=============================================================================
